---- MODULE Spec2Model ----
(***************************************************************************)
(* State-machine model of contributron (src/src/main.rs): main creates the *)
(* output directory and a Git repository, aligns a date range to the most  *)
(* recent Sunday, decodes a 7-pixel-tall grayscale image into columns, and *)
(* draw_repeating_pattern / draw_pixel append `pixel` commits per day.     *)
(*                                                                         *)
(* Calendar dates are day numbers since 1970-01-01 (a Thursday); instants  *)
(* are seconds since the Unix epoch.  A commit's OID is its position in    *)
(* the object store (commits), 0 stands for "no commit".                   *)
(***************************************************************************)
EXTENDS Integers, Sequences, FiniteSets, TLC

VARIABLES
    pc,               \* position of main / draw_repeating_pattern / draw_pixel
    parentExists,     \* filesystem: the directory nesting the repo path exists
    dirExists,        \* filesystem: the repo path exists
    dirContents,      \* filesystem: entries of the repo path
    repoInitialised,  \* git2::Repository::init has run on the repo path
    refs,             \* references that find_reference resolves -> tip OID (0: unborn)
    commits,          \* object store: the commits created, in creation order
    git_reference,    \* Args.git_reference
    image,            \* the file at Args.image
    today,            \* main: exact = now.date_naive()
    end_date,         \* main: date (the range's end)
    start_date,       \* main: a_year_ago (the range's start)
    columns,          \* main: columns
    sCol,             \* pixels iterator: column of the next element (Len(columns)+1: separator)
    sRow,             \* pixels iterator: row of the next element
    date,             \* draw_repeating_pattern: date
    pixel,            \* draw_repeating_pattern: pixel
    pixelRow,         \* row of the image the current pixel was read from
    utc,              \* draw_pixel: seconds_since_epoch of the signature
    parent,           \* draw_pixel: parent (0: None)
    i,                \* draw_pixel: loop counter of `for i in 0..pixel`
    output            \* standard output: the progress lines

vars == <<pc, parentExists, dirExists, dirContents, repoInitialised, refs, commits,
          git_reference, image, today, end_date, start_date, columns, sCol, sRow,
          date, pixel, pixelRow, utc, parent, i, output>>

-----------------------------------------------------------------------------
(* Bounds of the model *)

MaxWidth == 3
NowSpan == 7
FirstToday == 20761

(* Program constants *)

DAYS == 7 * 53

ROWS == 7

U8_MAX == 255

SECS_PER_DAY == 24 * 60 * 60

AuthorIdentity == [name |-> "A U Thor", email |-> "author@example.com"]

-----------------------------------------------------------------------------
(* Inputs *)

Black == <<0, 0, 0, 0, 0, 0, 0>>

Palette == { <<1, 0, 0, 0, 0, 0, 0>>, <<0, 2, 0, 0, 0, 0, 3>> }

RECURSIVE SeqsOfLen(_, _)
SeqsOfLen(S, n) ==
    IF n = 0 THEN { <<>> }
    ELSE { Append(s, x) : s \in SeqsOfLen(S, n - 1), x \in S }

ColumnSeqs == { <<Black>> } \cup UNION { SeqsOfLen(Palette, w) : w \in 1..MaxWidth }

GoodImages ==
    { [decodable |-> TRUE, height |-> 7, has_color |-> FALSE, luma |-> cs] : cs \in ColumnSeqs }

BadImages ==
    { [decodable |-> FALSE, height |-> 0, has_color |-> FALSE, luma |-> <<>>],
      [decodable |-> TRUE, height |-> 8, has_color |-> FALSE, luma |-> <<>>],
      [decodable |-> TRUE, height |-> 7, has_color |-> TRUE, luma |-> <<Black>>] }

\* a decodable grayscale image 7 pixels tall and 0 pixels wide: (0..width) is empty
EmptyImages ==
    { [decodable |-> TRUE, height |-> 7, has_color |-> FALSE, luma |-> <<>>] }

Images == GoodImages \cup EmptyImages \cup BadImages

References == { "HEAD", "refs/heads/main" }

TimesOfDay == { 0, 43200, 86399 }

Nows == { d * SECS_PER_DAY + t : d \in FirstToday..(FirstToday + NowSpan - 1), t \in TimesOfDay }

PreExisting == { "notes.txt" }

-----------------------------------------------------------------------------
(* Pure functions *)

\* chrono: DateTime<Utc>::date_naive
date_naive(now) == now \div SECS_PER_DAY

\* chrono: NaiveDate::weekday().num_days_from_sunday(); day 0 is a Thursday
num_days_from_sunday(d) == (d + 4) % 7

\* as AlignEnd, rounding up to the next Sunday
AlignEndUp(exact) == exact + ((7 - num_days_from_sunday(exact)) % 7)

\* as AlignEnd, counting the days from Monday instead of Sunday
AlignEndFromMonday(exact) == exact - ((exact + 3) % 7)

\* main: date = exact - days_since_sunday
AlignEnd(exact) == exact - num_days_from_sunday(exact)

\* as AlignStart, one day fewer
AlignStartInclusive(d) == d - (DAYS - 1)

\* main: a_year_ago = date - DAYS
AlignStart(d) == d - DAYS

\* as SecondsSinceEpoch, at 00:00:00
SecondsAtMidnight(d) == d * SECS_PER_DAY

\* draw_pixel: date.and_time(12:00:00).and_utc() as seconds since the epoch
SecondsSinceEpoch(d) == d * SECS_PER_DAY + (12 * 3600 + 0 * 60 + 0)

\* draw_pixel: git2::Time::new(seconds_since_epoch, 0)
GitTime(d) == [seconds |-> SecondsSinceEpoch(d), offset_minutes |-> 0]

\* pixels: iter::once(&[0; 7]), the column chained after the image's columns
Separator == [r \in 1..ROWS |-> 0]

\* pixels.next() is Some: repeat_with never ends, so every position the
\* iterator takes (a column of the image, or the chained separator) has an element
StreamHasNext(cols, c, r) == c \in 1..(Len(cols) + 1) /\ r \in 1..ROWS

\* as StreamValue, with a separator of ones
StreamValueOnes(cols, c, r) == IF c <= Len(cols) THEN cols[c][r] ELSE 1

\* pixels: the element the iterator yields next
StreamValue(cols, c, r) == IF c <= Len(cols) THEN cols[c][r] ELSE Separator[r]

\* as StreamAdvance, with iter::once in place of repeat_with: one pass only
StreamAdvanceOnePass(cols, c, r) ==
    IF r < ROWS THEN <<c, r + 1>> ELSE <<c + 1, 1>>

\* as StreamAdvance, without the chained separator column
StreamAdvanceNoSeparator(cols, c, r) ==
    IF r < ROWS THEN <<c, r + 1>>
    ELSE IF c < Len(cols) THEN <<c + 1, 1>>
    ELSE <<1, 1>>

\* as StreamAdvance, without repeat_with: the separator is never left
StreamAdvanceOnce(cols, c, r) ==
    IF r < ROWS THEN <<c, r + 1>>
    ELSE IF c <= Len(cols) THEN <<c + 1, 1>>
    ELSE <<c, 1>>

\* pixels: the iterator's position after yielding one element
StreamAdvance(cols, c, r) ==
    IF r < ROWS THEN <<c, r + 1>>
    ELSE IF c <= Len(cols) THEN <<c + 1, 1>>
    ELSE <<1, 1>>

\* as InRange, for the inclusive range 0..=pixel
InRangeInclusive(k, p) == k <= p

\* as InRange, with the intensity clamped to 2 commits a day
InRangeClamped(k, p) == k < (IF p > 2 THEN 2 ELSE p)

\* draw_pixel: `for i in 0..pixel` has a next iteration
InRange(k, p) == k < p

\* draw_pixel: i + 1 in u8 arithmetic (a wrapped value stands for the overflow)
Ordinal(k) == (k + 1) % (U8_MAX + 1)

\* as Message, with the 0-based loop counter as the ordinal
MessageZeroBased(k, p) == "#" \o ToString(k) \o "/" \o ToString(p)

\* draw_pixel: format!("#{}/{pixel}", i + 1)
Message(k, p) == "#" \o ToString(Ordinal(k)) \o "/" \o ToString(p)

\* draw_pixel: reference.peel_to_commit().ok()
PeelToCommit(rs, name) == rs[name]

\* as UpdateRef, leaving the reference where it was
UpdateRefNever(rs, name, oid) == rs

\* git2: repo.commit(Some(reference), ..) moves the reference (and, through the
\* symbolic HEAD, the branch it names) to the new commit
UpdateRef(rs, name, oid) ==
    IF name = "HEAD"
    THEN [n \in DOMAIN rs \cup {"HEAD", "refs/heads/master"} |->
            IF n \in {"HEAD", "refs/heads/master"} THEN oid ELSE rs[n]]
    ELSE [n \in DOMAIN rs \cup {name} |-> IF n = name THEN oid ELSE rs[n]]

\* as Parents, never passing the parent on
ParentsNone(p) == <<>>

\* draw_pixel: parents = if let Some(parent) { &[parent] } else { &[] }
Parents(p) == IF p = 0 THEN <<>> ELSE <<p>>

\* as Percent, dividing by the number of dates of the inclusive range
PercentOfRange(d, start) == ((d - start) * 100) \div (DAYS + 1)

\* draw_repeating_pattern: the percentage of the progress line
Percent(d, start) == ((d - start) * 100) \div DAYS

-----------------------------------------------------------------------------
(* Initial state: the process has parsed its arguments *)

Init ==
    /\ pc = "mkparents"
    /\ dirExists \in BOOLEAN
    /\ parentExists \in BOOLEAN
    /\ dirExists => parentExists
    /\ dirContents = IF dirExists THEN PreExisting ELSE {}
    /\ repoInitialised = FALSE
    /\ refs = << >>
    /\ commits = << >>
    /\ git_reference \in References
    /\ image \in Images
    /\ today = 0
    /\ end_date = 0
    /\ start_date = 0
    /\ columns = << >>
    /\ sCol = 1
    /\ sRow = 1
    /\ date = 0
    /\ pixel = 0
    /\ pixelRow = 0
    /\ utc = GitTime(0)
    /\ parent = 0
    /\ i = 0
    /\ output = << >>

-----------------------------------------------------------------------------
(* main *)

\* fs::create_dir_all(parent)
CreateParents ==
    /\ pc = "mkparents"
    /\ parentExists' = TRUE
    /\ pc' = "mkdir"
    /\ UNCHANGED <<dirExists, dirContents, repoInitialised, refs, commits, git_reference,
                   image, today, end_date, start_date, columns, sCol, sRow, date, pixel,
                   pixelRow, utc, parent, i, output>>

\* as CreateDirOk, with create_dir_all's tolerance of an existing directory
CreateDirAlways(exists) == TRUE

\* fs::create_dir(&repo): fails when the path already exists
CreateDirOk(exists) == ~exists

CreateDir ==
    /\ pc = "mkdir"
    /\ IF CreateDirOk(dirExists)
       THEN /\ dirExists' = TRUE
            /\ pc' = "init"
       ELSE /\ dirExists' = dirExists
            /\ pc' = "panic"
    /\ UNCHANGED <<parentExists, dirContents, repoInitialised, refs, commits, git_reference,
                   image, today, end_date, start_date, columns, sCol, sRow, date, pixel,
                   pixelRow, utc, parent, i, output>>

\* git2::Repository::init(&repo): HEAD exists and names an unborn branch
RepoInit ==
    /\ pc = "init"
    /\ repoInitialised' = TRUE
    /\ dirContents' = dirContents \cup {".git"}
    /\ refs' = [n \in {"HEAD"} |-> 0]
    /\ pc' = "align"
    /\ UNCHANGED <<parentExists, dirExists, commits, git_reference, image, today, end_date,
                   start_date, columns, sCol, sRow, date, pixel, pixelRow, utc, parent, i,
                   output>>

\* let now = Utc::now(); date; a_year_ago
Align ==
    /\ pc = "align"
    /\ \E now \in Nows :
         /\ today' = date_naive(now)
         /\ end_date' = AlignEnd(date_naive(now))
         /\ start_date' = AlignStart(AlignEnd(date_naive(now)))
    /\ pc' = "open"
    /\ UNCHANGED <<parentExists, dirExists, dirContents, repoInitialised, refs, commits,
                   git_reference, image, columns, sCol, sRow, date, pixel, pixelRow, utc,
                   parent, i, output>>

\* as ImageAccepted, without the assertions
ImageAcceptedIfDecodable(img) == img.decodable

\* image::open succeeds, height == 7, !color.has_color()
ImageAccepted(img) == img.decodable /\ img.height = 7 /\ ~img.has_color

\* image::open, the height and colour assertions, columns, and the entry of
\* draw_repeating_pattern (pixels, date = start_date)
OpenImage ==
    /\ pc = "open"
    /\ IF ImageAccepted(image)
       THEN /\ columns' = image.luma
            /\ sCol' = 1
            /\ sRow' = 1
            /\ date' = start_date
            /\ pc' = "loop"
       ELSE /\ pc' = "panic"
            /\ UNCHANGED <<columns, sCol, sRow, date>>
    /\ UNCHANGED <<parentExists, dirExists, dirContents, repoInitialised, refs, commits,
                   git_reference, image, today, end_date, start_date, pixel, pixelRow, utc,
                   parent, i, output>>

-----------------------------------------------------------------------------
(* draw_repeating_pattern and draw_pixel *)

\* while date <= end_date: pixels.next(), then draw_pixel up to the resolution
\* of the reference
DrawPixel ==
    /\ pc = "loop"
    /\ date <= end_date
    /\ IF ~StreamHasNext(columns, sCol, sRow)
       THEN \* .expect("Internal error: ran out of pixels (should repeat endlessly)")
            /\ pc' = "panic"
            /\ UNCHANGED <<pixel, pixelRow, sCol, sRow, utc, parent, i>>
       ELSE /\ pixel' = StreamValue(columns, sCol, sRow)
            /\ pixelRow' = sRow
            /\ sCol' = StreamAdvance(columns, sCol, sRow)[1]
            /\ sRow' = StreamAdvance(columns, sCol, sRow)[2]
            /\ utc' = GitTime(date)
            /\ IF git_reference \in DOMAIN refs
               THEN /\ parent' = PeelToCommit(refs, git_reference)
                    /\ i' = 0
                    /\ pc' = "commits"
               ELSE \* panic!("Couldn't find Git reference ..")
                    /\ pc' = "panic"
                    /\ UNCHANGED <<parent, i>>
    /\ UNCHANGED <<parentExists, dirExists, dirContents, repoInitialised, refs, commits,
                   git_reference, image, today, end_date, start_date, columns, date, output>>

\* one iteration of `for i in 0..pixel`
Commit ==
    /\ pc = "commits"
    /\ InRange(i, pixel)
    /\ LET oid == Len(commits) + 1
       IN /\ commits' = Append(commits,
                [oid |-> oid,
                 parents |-> Parents(parent),
                 author |-> AuthorIdentity,
                 committer |-> AuthorIdentity,
                 author_time |-> utc,
                 committer_time |-> utc,
                 message |-> Message(i, pixel),
                 tree |-> "empty"])
          /\ refs' = UpdateRef(refs, git_reference, oid)
          /\ parent' = oid
    /\ i' = i + 1
    /\ UNCHANGED <<pc, parentExists, dirExists, dirContents, repoInitialised, git_reference,
                   image, today, end_date, start_date, columns, sCol, sRow, date, pixel,
                   pixelRow, utc, output>>

\* repo.commit(..) returns Err (an I/O failure of the object store or of the
\* reference update): panic!("Couldn't commit to reference ..")
CommitFails ==
    /\ pc = "commits"
    /\ InRange(i, pixel)
    /\ pc' = "panic"
    /\ UNCHANGED <<parentExists, dirExists, dirContents, repoInitialised, refs, commits,
                   git_reference, image, today, end_date, start_date, columns, sCol, sRow,
                   date, pixel, pixelRow, utc, parent, i, output>>

\* draw_pixel returns; println!; date = date + 1 day
Progress ==
    /\ pc = "commits"
    /\ ~InRange(i, pixel)
    /\ output' = Append(output, [percent |-> Percent(date, start_date), date |-> date])
    /\ date' = date + 1
    /\ pc' = "loop"
    /\ UNCHANGED <<parentExists, dirExists, dirContents, repoInitialised, refs, commits,
                   git_reference, image, today, end_date, start_date, columns, sCol, sRow,
                   pixel, pixelRow, utc, parent, i>>

\* the while loop ends and main returns
Finish ==
    /\ pc = "loop"
    /\ date > end_date
    /\ pc' = "done"
    /\ UNCHANGED <<parentExists, dirExists, dirContents, repoInitialised, refs, commits,
                   git_reference, image, today, end_date, start_date, columns, sCol, sRow,
                   date, pixel, pixelRow, utc, parent, i, output>>

Next ==
    \/ CreateParents
    \/ CreateDir
    \/ RepoInit
    \/ Align
    \/ OpenImage
    \/ DrawPixel
    \/ Commit
    \/ CommitFails
    \/ Progress
    \/ Finish

Spec == Init /\ [][Next]_vars

-----------------------------------------------------------------------------
(* Vocabulary of the properties *)

\* main has computed the date range
Aligned == today # 0

\* element k (0-based) of the tiled stream of a column sequence: the columns
\* flattened row-fastest, one zero column after each full pass
Tiled(cols, k) ==
    LET period == 7 * (Len(cols) + 1)
        m == k % period
    IN IF m < 7 * Len(cols) THEN cols[(m \div 7) + 1][(m % 7) + 1] ELSE 0

\* the sum of the elements lo..hi of the tiled stream (lo <= hi)
RECURSIVE SumTiledRange(_, _, _)
SumTiledRange(cols, lo, hi) ==
    IF lo = hi THEN Tiled(cols, lo)
    ELSE LET mid == (lo + hi) \div 2
         IN SumTiledRange(cols, lo, mid) + SumTiledRange(cols, mid + 1, hi)

\* the sum of the first n elements of the tiled stream
SumTiled(cols, n) == IF n = 0 THEN 0 ELSE SumTiledRange(cols, 0, n - 1)

\* the calendar date a commit is stamped with
CommitDate(c) == c.author_time.seconds \div SECS_PER_DAY

\* the commits stamped with calendar date d
CommitsOn(d) == { k \in 1..Len(commits) : CommitDate(commits[k]) = d }

-----------------------------------------------------------------------------
(* C1 *)

\* C1: a completed run creates as many commits as the sum, over the 371 days
\* of the window, of element i of the tiled stream for day i.
\* The code walks 372 days (C2), so the statement fails when element 371 of
\* the stream is not zero.
C1_CommitsAreSumOver371Days ==
    pc = "done" => Len(commits) = SumTiled(columns, DAYS)

-----------------------------------------------------------------------------
(* C2 *)

\* C2: the inclusive range [start, end] holds exactly 371 dates
\* (start = end - 370 days) and the day loop visits each of them exactly once,
\* in ascending order.
C2_RangeHas371Dates ==
    /\ Aligned => start_date = end_date - (DAYS - 1)
    /\ pc = "done" =>
          /\ Len(output) = DAYS
          /\ \A k \in 1..Len(output) : output[k].date = start_date + (k - 1)

-----------------------------------------------------------------------------
(* C3 *)

-----------------------------------------------------------------------------
(* C4 *)

\* C4: the start date falls on Sunday, the date of day index i has weekday
\* i mod 7 counted from Sunday, and the intensity read from pixel row r is
\* committed on weekday r (rows and weekdays both counted from 0).
C4_RowIsWeekday ==
    /\ Aligned => num_days_from_sunday(start_date) = 0
    /\ pc = "commits" =>
          /\ num_days_from_sunday(date) = (date - start_date) % 7
          /\ pixelRow - 1 = num_days_from_sunday(date)
          /\ \A k \in (Len(commits) - i + 1)..Len(commits) :
                num_days_from_sunday(CommitDate(commits[k])) = pixelRow - 1

\* the commits of a Saturday (row 6) after the first week have been created
C4_Witness ==
    /\ pc = "commits"
    /\ pixelRow = 7
    /\ pixel > 0
    /\ i = pixel
    /\ date > start_date + 7

-----------------------------------------------------------------------------
(* C5 *)

\* C5: every commit created for calendar date d has author and committer
\* time 86400 * d + 43200 seconds since the epoch with offset 0: truncated to
\* a date it is d, and the time of day is the same for all commits.
C5_TimestampIsMiddayUtc ==
    /\ \A k \in 1..Len(commits) :
          /\ commits[k].author_time = commits[k].committer_time
          /\ commits[k].author_time.seconds % SECS_PER_DAY = 43200
          /\ commits[k].author_time.offset_minutes = 0
    /\ pc = "commits" =>
          \A k \in (Len(commits) - i + 1)..Len(commits) :
             /\ commits[k].author_time.seconds = 86400 * date + 43200
             /\ date_naive(commits[k].author_time.seconds) = date

\* commits of two different dates exist, the latest one just created
C5_Witness ==
    /\ pc = "commits"
    /\ i > 0
    /\ Len(commits) > i
    /\ CommitDate(commits[1]) # date

-----------------------------------------------------------------------------
(* C6 *)

\* the commits that name commit k as a parent
Children(k) == { j \in 1..Len(commits) : \E x \in 1..Len(commits[j].parents) :
                                            commits[j].parents[x] = k }

\* the commits without a parent
Parentless == { k \in 1..Len(commits) : commits[k].parents = <<>> }

\* the OIDs met by following first-parent links from OID t, t first
RECURSIVE WalkFrom(_)
WalkFrom(t) ==
    IF t = 0 THEN <<>>
    ELSE <<t>> \o WalkFrom(IF commits[t].parents = <<>> THEN 0 ELSE commits[t].parents[1])

\* every commit has at most one parent and at most one child, and the walk
\* from the reference tip visits every commit once, in reverse creation order
LinearChain ==
    /\ \A k \in 1..Len(commits) :
          /\ Len(commits[k].parents) <= 1
          /\ Cardinality(Children(k)) <= 1
    /\ WalkFrom(refs[git_reference]) = [k \in 1..Len(commits) |-> Len(commits) + 1 - k]

\* C6 as stated: after any completed run on a fresh repository the commit
\* graph is linear, exactly one commit (the first created) is parentless, and
\* the walk from the reference tip visits every commit exactly once, in
\* reverse creation order, ending at the parentless commit.
C6_LinearWithOneRoot ==
    pc = "done" =>
       /\ LinearChain
       /\ Parentless = {1}

\* C6 as amended: the same, the parentless commit existing only when the run
\* created a commit: a run that creates no commit leaves an empty graph and a
\* reference without a tip.
C6_LinearWithOneRootIfAny ==
    pc = "done" =>
       /\ LinearChain
       /\ commits # <<>> => Parentless = {1}
       /\ commits = <<>> => Parentless = {} /\ refs[git_reference] = 0

\* a completed run with days of several commits and several days of commits
C6_Witness ==
    /\ pc = "done"
    /\ Len(columns) = 2
    /\ \E k \in 1..Len(commits) : commits[k].message = "#3/3"
    /\ \E k \in 1..Len(commits) : commits[k].message = "#1/1"

-----------------------------------------------------------------------------
(* C7 *)

\* C7: for n >= 1 columns the value read for day index i is
\* columns[(i mod 7(n+1)) div 7][i mod 7] when (i mod 7(n+1)) < 7n and 0
\* otherwise: the stream has period 7(n+1) and the separator follows the last
\* column only.
C7_StreamIsTiled ==
    (pc = "commits" /\ Len(columns) >= 1) =>
        /\ pixel = Tiled(columns, date - start_date)
        /\ (sCol = Len(columns) + 1) =>
              ((date - start_date + 1) % (7 * (Len(columns) + 1))) >= 7 * Len(columns)

\* n = 2 with different columns: day 21 restarts at column 0 after the second
\* column (days 7..13) and the separator (days 14..20)
C7_Witness ==
    /\ pc = "commits"
    /\ Len(columns) = 2
    /\ columns[1] # columns[2]
    /\ date - start_date = 21
    /\ pixel = columns[1][1]
    /\ pixel # columns[2][1]
    /\ Len(output) = 21

-----------------------------------------------------------------------------
(* C8 *)

\* the image is the valid one-column image of the given column
OneColumnImage(col) ==
    image = [decodable |-> TRUE, height |-> 7, has_color |-> FALSE, luma |-> <<col>>]

\* C8: with the one-column all-zero image no commit is ever created and the
\* reference never points at a commit, up to and including completion.
C8_BlackImageNoCommits ==
    OneColumnImage(Black) =>
        /\ commits = <<>>
        /\ \A n \in DOMAIN refs : refs[n] = 0

\* the run on the black image has completed
C8_Witness ==
    /\ OneColumnImage(Black)
    /\ pc = "done"
    /\ Len(output) > 2 * ROWS

-----------------------------------------------------------------------------
(* C9 *)

\* C9 as stated: with the one-column image [1,0,0,0,0,0,0] a completed run
\* creates exactly one commit, dated at the start date, with message "#1/1".
C9_ExactlyOneCommit ==
    (pc = "done" /\ OneColumnImage(<<1, 0, 0, 0, 0, 0, 0>>)) =>
        /\ Len(commits) = 1
        /\ CommitDate(commits[1]) = start_date
        /\ commits[1].message = "#1/1"

\* C9 as amended: the run creates exactly 27 commits, one on the start date
\* and one every 14 days after it (day indices 0, 14, .., 364: the image
\* tiled with its separator column), each with message "#1/1".
C9_OneCommitPerTiling ==
    (pc = "done" /\ OneColumnImage(<<1, 0, 0, 0, 0, 0, 0>>)) =>
        /\ Len(commits) = 27
        /\ \A k \in 1..Len(commits) :
              /\ CommitDate(commits[k]) = start_date + 14 * (k - 1)
              /\ commits[k].message = "#1/1"
        /\ num_days_from_sunday(CommitDate(commits[1])) = 0

\* the run on that image has completed
C9_Witness ==
    /\ pc = "done"
    /\ OneColumnImage(<<1, 0, 0, 0, 0, 0, 0>>)
    /\ Len(commits) > 1

-----------------------------------------------------------------------------
(* C10 *)

\* C10: when the output path exists at startup (it holds its pre-existing
\* entries), the run never gets past create_dir: no repository is
\* initialised, no commit is created, and the directory's entries stay as
\* they were.
C10_ExistingPathUntouched ==
    (PreExisting \subseteq dirContents) =>
        /\ pc \in {"mkparents", "mkdir", "panic"}
        /\ ~repoInitialised
        /\ refs = << >>
        /\ commits = << >>
        /\ dirContents = PreExisting

\* the run on an existing path has failed
C10_Witness ==
    /\ pc = "panic"
    /\ dirExists
    /\ dirContents = PreExisting

-----------------------------------------------------------------------------
(* C11 *)

\* C11: given an empty sequence of columns the run is rejected: no stream
\* value is read, no day is walked and no commit is created.
\* The code has no such check: it walks the whole range on a stream of zeros.
C11_EmptyColumnsRejected ==
    image \in EmptyImages =>
        /\ pc \notin {"loop", "commits", "done"}
        /\ output = <<>>
        /\ commits = <<>>

-----------------------------------------------------------------------------
(* C12 *)

\* C12: at the start of each day the resolution of the reference does not
\* abort the run: when the reference does not exist or has no commit the next
\* commit is parentless, otherwise its parent is the reference's tip; for any
\* reference name.
\* The code panics when find_reference finds no reference of that name.
C12_AbsentReferenceStartsHistory ==
    [][(pc = "loop" /\ date <= end_date) =>
          /\ pc' = "commits"
          /\ parent' = (IF git_reference \in DOMAIN refs THEN refs[git_reference] ELSE 0)]_vars

-----------------------------------------------------------------------------
(* C13 *)

\* the reference, the parent handle and the object store agree: the reference
\* points at the commit created last, the handle the next commit would take as
\* its parent is that commit, and every commit is reached from it
TipIsLastCommit ==
    commits # <<>> =>
        /\ refs[git_reference] = Len(commits)
        /\ parent = Len(commits)
        /\ WalkFrom(refs[git_reference]) = [k \in 1..Len(commits) |-> Len(commits) + 1 - k]

-----------------------------------------------------------------------------
(* C14 *)

\* the 0-based index in the stream of the element the iterator yields next,
\* within one pass
StreamIndex == (sCol - 1) * ROWS + (sRow - 1)

\* C14: for every date walked, exactly `pixel` commits are created for it,
\* pixel being the one stream value read for that date (taken as it is, not
\* clamped or rescaled); one stream value is consumed per date, also when it
\* is 0.
C14_CommitsPerDayIsPixel ==
    /\ pc = "commits" =>
          /\ pixel \in 0..U8_MAX
          /\ i <= pixel
          /\ Cardinality(CommitsOn(date)) = i
          /\ StreamIndex = (date - start_date + 1) % (ROWS * (Len(columns) + 1))
    /\ (pc = "loop" /\ output # <<>>) =>
          /\ Cardinality(CommitsOn(date - 1)) = pixel
          /\ StreamIndex = (date - start_date) % (ROWS * (Len(columns) + 1))
    /\ pc = "done" =>
          \A k \in 1..Len(output) :
             Cardinality(CommitsOn(output[k].date)) = Tiled(columns, k - 1)

\* a day of intensity 3 has just been finished, after days of intensity 0
C14_Witness ==
    /\ pc = "loop"
    /\ pixel = 3
    /\ Cardinality(CommitsOn(date - 1)) = 3
    /\ CommitsOn(date - 2) = {}
    /\ Len(output) > ROWS

-----------------------------------------------------------------------------
(* C15 *)

\* C15: the commits of one day's batch have the messages "#1/p", "#2/p", ..
\* in creation order (p the day's intensity); the commit of ordinal k + 1 has
\* the commit of ordinal k as its one parent, and the commit of ordinal 1 has
\* as parent the last commit of the nearest earlier day with commits, or no
\* parent when there is none.
C15_BatchMessagesAndParents ==
    pc = "commits" =>
        LET first == Len(commits) - i + 1
        IN /\ \A j \in 1..i :
                /\ commits[first + j - 1].message = "#" \o ToString(j) \o "/" \o ToString(pixel)
                /\ commits[first + j - 1].parents =
                      (IF j > 1 THEN <<first + j - 2>>
                       ELSE IF first = 1 THEN <<>> ELSE <<first - 1>>)
           /\ first > 1 =>
                /\ CommitDate(commits[first - 1]) < date
                /\ \A k \in 1..(first - 1) :
                      CommitDate(commits[k]) <= CommitDate(commits[first - 1])
                /\ CommitsOn(CommitDate(commits[first - 1])) \subseteq 1..(first - 1)

\* a complete batch of 3 commits whose first commit follows the batch of an
\* earlier day, with days of no commit in between
C15_Witness ==
    /\ pc = "commits"
    /\ pixel = 3
    /\ i = 3
    /\ Len(commits) > 3
    /\ commits[Len(commits)].message = "#3/3"
    /\ CommitDate(commits[Len(commits) - 3]) < date - 1

-----------------------------------------------------------------------------
(* C16 *)

\* the k-th progress line is the line of day index k - 1, with the floor of
\* 100 * days_elapsed / 371 as its percentage
ProgressLineOk(k) ==
    /\ output[k].date = start_date + (k - 1)
    /\ output[k].percent * 371 <= 100 * (k - 1)
    /\ (output[k].percent + 1) * 371 > 100 * (k - 1)
    /\ output[k].percent \in 0..100
    /\ k > 1 => output[k - 1].percent <= output[k].percent

\* C16: one progress line is emitted per calendar day of the range, in
\* ascending date order and only after all of the day's commits were created;
\* its percentage is floor(100 * (date - start) / 371), so the percentages
\* never decrease and lie in 0..100.
C16_ProgressLines ==
    /\ pc \in {"loop", "done"} =>
          /\ Len(output) = date - start_date
          /\ output # <<>> =>
                /\ ProgressLineOk(Len(output))
                /\ Cardinality(CommitsOn(output[Len(output)].date)) = pixel
    /\ pc = "commits" => Len(output) = date - start_date
    /\ pc = "done" =>
          /\ \A k \in 1..Len(output) : ProgressLineOk(k)
          /\ output[Len(output)].date = end_date

\* the run has completed: the last line shows 100%, an earlier one 50%
C16_Witness ==
    /\ pc = "done"
    /\ output[Len(output)].percent = 100
    /\ output[1].percent = 0
    /\ \E k \in 1..Len(output) : output[k].percent = 50
    /\ commits # <<>>

-----------------------------------------------------------------------------
(* C17 *)

\* C17: end = today - k with k the number of days from the most recent Sunday
\* to today: end is the latest Sunday not after today, today - end is in
\* 0..6, and end = today when today is a Sunday.
C17_EndIsLatestSunday ==
    Aligned =>
        /\ end_date = today - num_days_from_sunday(today)
        /\ end_date <= today
        /\ today - end_date \in 0..6
        /\ \A d \in end_date..today : (num_days_from_sunday(d) = 0) = (d = end_date)
        /\ num_days_from_sunday(today) = 0 => end_date = today

\* today is a Sunday and is its own range end
C17_Witness ==
    /\ pc = "open"
    /\ num_days_from_sunday(today) = 0
    /\ end_date = today

-----------------------------------------------------------------------------
(* C18 *)

\* C18: the stream never runs out: whatever the column sequence (the empty one
\* included) and however many values were read, the iterator has a next
\* element, so the run never aborts on "ran out of pixels"; and the columns
\* the stream reads are the decoded ones, unmodified, in every pass.
C18_StreamNeverEnds ==
    /\ StreamHasNext(columns, sCol, sRow)
    /\ pc \in {"loop", "commits", "done"} => columns = image.luma
    /\ (pc = "panic" /\ Aligned /\ ImageAccepted(image)) =>
          (git_reference \notin DOMAIN refs \/ InRange(i, pixel))

\* the third pass over a three-column image is under way
C18_Witness ==
    /\ pc = "commits"
    /\ Len(columns) = 3
    /\ date - start_date > 2 * ROWS * (Len(columns) + 1)
    /\ sCol = 2
    /\ pixel > 0

-----------------------------------------------------------------------------
(* C19 *)

\* C19: the startup steps run in the order parent directories, output
\* directory, repository initialisation, date range, image; so a run whose
\* image is rejected (undecodable, height other than 7, or colour) aborts with
\* no commit, after the output directory was created and an empty repository
\* initialised in it.
C19_StartupOrder ==
    /\ pc \in {"mkdir", "init"} => parentExists /\ ~repoInitialised
    /\ repoInitialised => dirExists /\ parentExists /\ ".git" \in dirContents
    /\ Aligned => repoInitialised
    /\ pc \in {"mkparents", "mkdir", "init", "align"} => ~Aligned
    /\ pc \in {"loop", "commits", "done"} => Aligned
    /\ pc \in {"mkparents", "mkdir", "init", "align", "open"} =>
          columns = <<>> /\ date = 0 /\ output = <<>>
    /\ image \in BadImages =>
          /\ pc \notin {"loop", "commits", "done"}
          /\ commits = <<>>
          /\ (pc = "panic" /\ ~(PreExisting \subseteq dirContents)) =>
                /\ dirExists
                /\ dirContents = {".git"}
                /\ repoInitialised
                /\ refs = [n \in {"HEAD"} |-> 0]
                /\ Aligned

\* a run on an image 8 pixels tall has aborted, the repository initialised
C19_Witness ==
    /\ pc = "panic"
    /\ image.decodable
    /\ image.height = 8
    /\ repoInitialised
    /\ Aligned
    /\ commits = <<>>

-----------------------------------------------------------------------------
(* The first day of the range for every intensity a pixel can have *)

\* the one-column images whose first pixel has luma p, for every u8 value p
OrdinalImages ==
    { [decodable |-> TRUE, height |-> 7, has_color |-> FALSE,
       luma |-> << <<p, 0, 0, 0, 0, 0, 0>> >>] : p \in 0..U8_MAX }

InitOrdinal ==
    /\ pc = "mkparents"
    /\ dirExists = FALSE
    /\ parentExists \in BOOLEAN
    /\ dirContents = {}
    /\ repoInitialised = FALSE
    /\ refs = << >>
    /\ commits = << >>
    /\ git_reference = "HEAD"
    /\ image \in OrdinalImages
    /\ today = 0
    /\ end_date = 0
    /\ start_date = 0
    /\ columns = << >>
    /\ sCol = 1
    /\ sRow = 1
    /\ date = 0
    /\ pixel = 0
    /\ pixelRow = 0
    /\ utc = GitTime(0)
    /\ parent = 0
    /\ i = 0
    /\ output = << >>

\* main up to the end of the first day of the range, `now` on the first day
\* of the window
NextOrdinal ==
    \/ CreateParents
    \/ CreateDir
    \/ RepoInit
    \/ (Align /\ today' = FirstToday)
    \/ OpenImage
    \/ (DrawPixel /\ date = start_date)
    \/ Commit
    \/ CommitFails
    \/ Progress

SpecOrdinal == InitOrdinal /\ [][NextOrdinal]_vars

-----------------------------------------------------------------------------
(* C20 *)

\* C20: the ordinal of a day's commit is i + 1 in 8-bit unsigned arithmetic
\* with i in 0..pixel (pixel excluded): for every pixel value 0..255 it stays
\* within 1..255 and never overflows, also for pixel = 255.
C20_OrdinalNeverOverflows ==
    pc = "commits" =>
        /\ pixel \in 0..U8_MAX
        /\ i \in 0..pixel
        /\ InRange(i, pixel) =>
              /\ Ordinal(i) = i + 1
              /\ Ordinal(i) \in 1..U8_MAX
        /\ i > 0 =>
              commits[Len(commits)].message = "#" \o ToString(i) \o "/" \o ToString(pixel)

\* the 255th commit of a day of intensity 255 has been created
C20_Witness ==
    /\ pc = "commits"
    /\ pixel = U8_MAX
    /\ i = U8_MAX
    /\ commits[Len(commits)].message = "#255/255"

====
